---- MODULE Spec2Model ----
(***************************************************************************)
(* erlang-mesos scheduler bridge (c_src/scheduler_c_api.cpp, utils.hpp).   *)
(*                                                                         *)
(* The controller (an Erlang process) drives a native scheduler driver     *)
(* through the scheduler_* functions; the driver's worker threads call the *)
(* CScheduler callbacks, each of which builds a tuple in a scratch         *)
(* environment and hands it to enif_send.                                  *)
(*                                                                         *)
(* A callback is split into its steps that touch shared state: the entry   *)
(* (enif_alloc_env), every enif_send, and the return (enif_clear_env).     *)
(* The scheduler_* functions run atomically, except scheduler_join, which  *)
(* blocks.                                                                 *)
(***************************************************************************)
EXTENDS Integers, Sequences, FiniteSets, TLC

\* ------------------------------------------------------------- bounds
\* Callback invocations in one behaviour.
MaxInv == 2
\* Offers in one resourceOffers callback.
MaxOffers == 2
\* Elements in one sequence argument of a command.
MaxSeq == 2

\* ---------------------------------------------------------- constants
\* mesos::Status, the native driver's run state as it reports it.
Status ==
  [DRIVER_NOT_STARTED |-> 1, DRIVER_RUNNING |-> 2,
   DRIVER_ABORTED |-> 3, DRIVER_STOPPED |-> 4]

\* Mutant: a rejection reported with the stopped value.
RejectAsStopped == Status.DRIVER_STOPPED

\* #define DRIVER_ABORTED 3;  what a command returns on a failed decode.
DRIVER_ABORTED == 3

NativeStatuses == {Status[n] : n \in DOMAIN Status}

TerminalStatuses == {Status.DRIVER_ABORTED, Status.DRIVER_STOPPED}

\* Controller identities (ErlNifPid).
Pids == {"pidA", "pidB"}

\* The driver's internal worker threads.
Threads == {"t1", "t2"}

\* ---------------------------------------------------------- the codec
\* The protobuf schema of each entity, as the first byte of its encoding.
TypeTag ==
  [FrameworkInfo |-> 10, Credential |-> 11, FrameworkID |-> 12,
   MasterInfo |-> 13, OfferID |-> 14, Offer |-> 15, Operation |-> 16,
   Filters |-> 17, TaskID |-> 18, TaskInfo |-> 19, TaskStatus |-> 20,
   ExecutorID |-> 21, SlaveID |-> 22, Request |-> 23]

\* The values an entity of the model takes.
Vals == {1, 2}

Obj(T, v) == [type |-> T, val |-> v]

\* A default-constructed protobuf object.
Default(T) == Obj(T, 0)

\* obj.SerializeToArray: the wire bytes of an object.
SerializeToArray(obj) == <<TypeTag[obj.type], obj.val>>

\* ret.ParseFromArray(data, size): ok iff the bytes are a well-formed T.
ParseFromArray(T, data) ==
  IF Len(data) = 2 /\ data[1] = TypeTag[T] /\ data[2] \in Vals
  THEN [ok |-> TRUE, obj |-> Obj(T, data[2])]
  ELSE [ok |-> FALSE, obj |-> Default(T)]

\* An ErlNifBinary*: a null pointer, or a pointer to bytes.
Bin(b) == [null |-> FALSE, bytes |-> b]
NullBin == [null |-> TRUE, bytes |-> <<>>]

\* pb_obj_to_binary: the binary term holding the object's serialization.
pb_obj_to_binary(obj) == [k |-> "binary", v |-> SerializeToArray(obj)]

\* deserialize(T& ret, ErlNifBinary* obj): false on a null pointer or a failed
\* parse.
deserialize(T, bin) ==
  IF bin.null
  THEN [ok |-> FALSE, obj |-> Default(T)]
  ELSE ParseFromArray(T, bin.bytes)

\* deserialize(vector<T>& ret, BinaryNifArray* obj): every element is decoded
\* on its own, and one failure fails the whole sequence.
deserializeSeq(T, bins) ==
  LET each == [i \in 1..Len(bins) |-> deserialize(T, bins[i])]
  IN  [ok |-> \A i \in 1..Len(bins) : each[i].ok,
       objs |-> [i \in 1..Len(bins) |-> each[i].obj]]

\* ------------------------------------------------------ term building
\* enif_make_atom / enif_make_int / enif_make_string(.., ERL_NIF_LATIN1).
enif_make_int(n) == [k |-> "int", v |-> <<n>>]

\* std::string::c_str() read as a C string: the bytes before the first 0.
RECURSIVE CStr(_)
CStr(s) ==
  IF s = <<>> \/ Head(s) = 0 THEN <<>> ELSE <<Head(s)>> \o CStr(Tail(s))

enif_make_string(s) == [k |-> "string", v |-> CStr(s)]

Tuple(tag, elems) == [tag |-> tag, elems |-> elems]

\* What a use of an invalidated environment or a bad variadic call may leave
\* in the mailbox instead of the intended term.
Garbage == Tuple("GARBAGE", <<>>)

\* ------------------------------------------------------- the callbacks
\* The arguments of a callback: its entity arguments in order, the offer
\* list of resourceOffers, the std::string of frameworkMessage and error,
\* the int of executorLost.
Args(objs, list, str, int) ==
  [objs |-> objs, list |-> list, str |-> str, int |-> int]

\* The tuple each callback builds (for resourceOffers, from offers.at(i-1)).
registered(a) ==
  Tuple("registered", <<pb_obj_to_binary(a.objs[1]), pb_obj_to_binary(a.objs[2])>>)

reregistered(a) ==
  Tuple("reregistered", <<pb_obj_to_binary(a.objs[1])>>)

offerRescinded(a) ==
  Tuple("offerRescinded", <<pb_obj_to_binary(a.objs[1])>>)

statusUpdate(a) ==
  Tuple("statusUpdate", <<pb_obj_to_binary(a.objs[1])>>)

frameworkMessage(a) ==
  Tuple("frameworkMessage",
        <<pb_obj_to_binary(a.objs[1]), pb_obj_to_binary(a.objs[2]),
          enif_make_string(a.str)>>)

slaveLost(a) ==
  Tuple("slaveLost", <<pb_obj_to_binary(a.objs[1])>>)

\* Mutant: the slave id and the executor id change places.
executorLost_swapped(a) ==
  Tuple("executorLost",
        <<pb_obj_to_binary(a.objs[2]), pb_obj_to_binary(a.objs[1]),
          enif_make_int(a.int)>>)

executorLost(a) ==
  Tuple("executorLost",
        <<pb_obj_to_binary(a.objs[1]), pb_obj_to_binary(a.objs[2]),
          enif_make_int(a.int)>>)

error(a) ==
  Tuple("error", <<enif_make_string(a.str)>>)

resourceOffers(a, i) ==
  Tuple("resourceOffers", <<pb_obj_to_binary(a.list[i])>>)

\* disconnected calls the variadic enif_make_tuple(env, cnt, ...) with the
\* atom in the place of cnt: the element count read is the atom's term word
\* and the elements are whatever the argument registers hold.  No build
\* yields the 1-tuple {disconnected}.
disconnected(a) == Garbage

CallbackMessage(cb, a, i) ==
  CASE cb = "registered" -> registered(a)
    [] cb = "reregistered" -> reregistered(a)
    [] cb = "disconnected" -> disconnected(a)
    [] cb = "resourceOffers" -> resourceOffers(a, i)
    [] cb = "offerRescinded" -> offerRescinded(a)
    [] cb = "statusUpdate" -> statusUpdate(a)
    [] cb = "frameworkMessage" -> frameworkMessage(a)
    [] cb = "slaveLost" -> slaveLost(a)
    [] cb = "executorLost" -> executorLost(a)
    [] cb = "error" -> error(a)

\* Mutant: registered builds its message and does not send it.
NumSends_registeredSilent(cb, a) ==
  IF cb = "resourceOffers" THEN Len(a.list)
  ELSE IF cb = "registered" THEN 0 ELSE 1

\* The number of enif_send calls a callback makes.
NumSends(cb, a) == IF cb = "resourceOffers" THEN Len(a.list) ELSE 1

\* Whether the callback ends with enif_clear_env(env): all but
\* frameworkMessage.
ClearsEnv(cb) == cb # "frameworkMessage"

\* Whether the callback's tuple is built by a call that is undefined whatever
\* the state of the environment.
BadBuild(cb) == cb = "disconnected"

\* ------------------------------------------- what the driver may pass
\* One string without and one with a zero byte.
Strings == {<<7, 8>>, <<7, 0, 8>>}

\* The offers of a callback are distinct: offer i of a list has id i.
OfferLists == {[i \in 1..n |-> Obj("Offer", i)] : n \in 0..MaxOffers}

NoObjs == <<>>

CallbackArgs(cb) ==
  CASE cb = "registered" ->
         {Args(<<Obj("FrameworkID", 1), Obj("MasterInfo", 2)>>, <<>>, <<>>, 0)}
    [] cb = "reregistered" -> {Args(<<Obj("MasterInfo", 2)>>, <<>>, <<>>, 0)}
    [] cb = "disconnected" -> {Args(NoObjs, <<>>, <<>>, 0)}
    [] cb = "resourceOffers" -> {Args(NoObjs, l, <<>>, 0) : l \in OfferLists}
    [] cb = "offerRescinded" -> {Args(<<Obj("OfferID", 1)>>, <<>>, <<>>, 0)}
    [] cb = "statusUpdate" -> {Args(<<Obj("TaskStatus", 1)>>, <<>>, <<>>, 0)}
    [] cb = "frameworkMessage" ->
         {Args(<<Obj("ExecutorID", 1), Obj("SlaveID", 2)>>, <<>>, s, 0) : s \in Strings}
    [] cb = "slaveLost" -> {Args(<<Obj("SlaveID", 2)>>, <<>>, <<>>, 0)}
    [] cb = "executorLost" ->
         {Args(<<Obj("ExecutorID", 1), Obj("SlaveID", 2)>>, <<>>, <<>>, 9)}
    [] cb = "error" -> {Args(NoObjs, <<>>, s, 0) : s \in Strings}

\* The events the driver delivers while it is running; error comes after it
\* has aborted.
RunningEvents ==
  {"registered", "reregistered", "disconnected", "resourceOffers",
   "offerRescinded", "statusUpdate", "frameworkMessage", "slaveLost",
   "executorLost"}

\* ------------------------------------------------------------ the state
VARIABLES
  driverObj,    \* SchedulerPtrPair.driver: "null", "live" or "freed"
  schedObj,     \* SchedulerPtrPair.scheduler: "null", "live" or "freed"
  sched,        \* the CScheduler's fields: pid, info
  initPid,      \* the identity the controller passed to scheduler_init
  initCall,     \* scheduler_init's call: its payloads, what the driver was built from
  status,       \* the native driver's run state
  thr,          \* each worker thread: "none", "live" or "exited"
  errPending,   \* the driver aborted itself and owes the error callback
  invs,         \* the callback invocations so far, in the order they began
  sent,         \* the enif_send calls so far, in the order they were made
  alive,        \* whether the controller process is alive
  lastCmd,      \* the last command: its inputs, its result, its driver calls
  joinState,    \* "idle", or "blocked": a caller is inside driver->join()
  joinRet,      \* what the last scheduler_join returned (0: none yet)
  lastLife,     \* the last of start, stop, abort, join: its result, its calls
  crashed,      \* the emulator went down
  danglingUse   \* a thread used the driver or the CScheduler after delete

vars ==
  <<driverObj, schedObj, sched, initPid, initCall, status, thr, errPending, invs, sent,
    alive, lastCmd, joinState, joinRet, lastLife, crashed, danglingUse>>

pairVars == <<driverObj, schedObj, sched, initPid, initCall>>
driverVars == <<status, thr, errPending>>
cbVars == <<invs, sent>>
joinVars == <<joinState, joinRet, lastLife>>

NoCmd == [op |-> "none", ents |-> <<>>, seqs |-> <<>>, data |-> <<>>,
          ret |-> 0, calls |-> <<>>]

NoPid == "nopid"

\* A finished scheduler_init: the descriptor and credential bytes it was
\* given and whether a credential was supplied, and the constructor of
\* MesosSchedulerDriver it called: with which FrameworkInfo, and with which
\* Credential if with one.
InitCall(info, credentialssupplied, credentials, drvInfo, withCred, drvCred) ==
  [called |-> TRUE, info |-> info, supplied |-> credentialssupplied,
   cred |-> credentials, drvInfo |-> drvInfo, withCred |-> withCred,
   drvCred |-> drvCred]

NoInit ==
  [called |-> FALSE, info |-> NullBin, supplied |-> 0, cred |-> NullBin,
   drvInfo |-> Default("FrameworkInfo"), withCred |-> FALSE,
   drvCred |-> Default("Credential")]

\* A finished lifecycle call: the operation, the status it returned and the
\* operations it called on the native driver.
Life(op, ret, calls) == [op |-> op, ret |-> ret, calls |-> calls]

NoLife == [op |-> "none", ret |-> 0, calls |-> <<>>]

Init ==
  /\ driverObj = "null"
  /\ schedObj = "null"
  /\ sched = [pid |-> NoPid, info |-> Default("FrameworkInfo")]
  /\ initPid = NoPid
  /\ initCall = NoInit
  /\ status = Status.DRIVER_NOT_STARTED
  /\ thr = [t \in Threads |-> "none"]
  /\ errPending = FALSE
  /\ invs = <<>>
  /\ sent = <<>>
  /\ alive = TRUE
  /\ lastCmd = NoCmd
  /\ joinState = "idle"
  /\ joinRet = 0
  /\ lastLife = NoLife
  /\ crashed = FALSE
  /\ danglingUse = FALSE

\* The controller holds a pair it may use: built, and not yet destroyed.
PairLive == driverObj = "live" /\ schedObj = "live" /\ ~crashed

\* -------------------------------------------- the native driver (opaque)
\* MesosSchedulerDriver::start: a driver not yet started starts running and
\* spawns its worker threads; any other reports its status and does nothing.
DriverStart ==
  IF status = Status.DRIVER_NOT_STARTED
  THEN [status |-> Status.DRIVER_RUNNING, thr |-> [t \in Threads |-> "live"],
        ret |-> Status.DRIVER_RUNNING]
  ELSE [status |-> status, thr |-> thr, ret |-> status]

\* MesosSchedulerDriver::stop: a running or aborted driver becomes stopped.
DriverStop ==
  IF status \in {Status.DRIVER_RUNNING, Status.DRIVER_ABORTED}
  THEN [status |-> Status.DRIVER_STOPPED, ret |-> Status.DRIVER_STOPPED]
  ELSE [status |-> status, ret |-> status]

\* MesosSchedulerDriver::abort: a running driver becomes aborted.
DriverAbort ==
  IF status = Status.DRIVER_RUNNING
  THEN [status |-> Status.DRIVER_ABORTED, ret |-> Status.DRIVER_ABORTED]
  ELSE [status |-> status, ret |-> status]

\* MesosSchedulerDriver::join returns once the driver is no longer running
\* and its worker threads have exited.
DriverJoinDone ==
  /\ status # Status.DRIVER_RUNNING
  /\ \A t \in Threads : thr[t] # "live"

\* What every command of the driver (killTask, launchTasks, ...) reports:
\* its current status.
DriverCommandStatus == status

\* ----------------------------------------------------------- lifecycle
\* Mutant: the pid kept is not the caller's.
scheduler_init_otherPid(pid, info, credentialssupplied, credentials) ==
  LET credentials_pb == IF credentialssupplied # 0
                        THEN deserialize("Credential", credentials).obj
                        ELSE Default("Credential")
  IN  /\ driverObj = "null" /\ ~crashed
      /\ sched' = [pid |-> "pidA", info |-> deserialize("FrameworkInfo", info).obj]
      /\ initPid' = pid
      /\ initCall' = InitCall(info, credentialssupplied, credentials, sched'.info,
                              credentialssupplied # 0, credentials_pb)
      /\ schedObj' = "live"
      /\ driverObj' = "live"
      /\ UNCHANGED <<driverVars, cbVars, alive, lastCmd, joinVars, crashed, danglingUse>>

\* Mutant: a payload that does not decode is rejected as the commands reject
\* theirs: nothing is built, and the pair handed back is null.
scheduler_init_rejecting(pid, info, credentialssupplied, credentials) ==
  LET info_pb == deserialize("FrameworkInfo", info)
      credentials_pb == IF credentialssupplied # 0
                        THEN deserialize("Credential", credentials)
                        ELSE [ok |-> TRUE, obj |-> Default("Credential")]
      built == info_pb.ok /\ credentials_pb.ok
  IN  /\ driverObj = "null" /\ ~crashed
      /\ sched' = IF built THEN [pid |-> pid, info |-> info_pb.obj] ELSE sched
      /\ initPid' = IF built THEN pid ELSE initPid
      /\ initCall' = InitCall(info, credentialssupplied, credentials, info_pb.obj,
                              built /\ credentialssupplied # 0, credentials_pb.obj)
      /\ schedObj' = IF built THEN "live" ELSE schedObj
      /\ driverObj' = IF built THEN "live" ELSE driverObj
      /\ UNCHANGED <<driverVars, cbVars, alive, lastCmd, joinVars, crashed, danglingUse>>

\* scheduler_init: new CScheduler, pid stored, info decoded into it; the
\* credential, if one is supplied, decoded; neither result of deserialize is
\* looked at; new MesosSchedulerDriver with the CScheduler, its info and, if
\* one is supplied, the credential.
scheduler_init(pid, info, credentialssupplied, credentials) ==
  LET credentials_pb == IF credentialssupplied # 0
                        THEN deserialize("Credential", credentials).obj
                        ELSE Default("Credential")
  IN  /\ driverObj = "null" /\ ~crashed
      /\ sched' = [pid |-> pid, info |-> deserialize("FrameworkInfo", info).obj]
      /\ initPid' = pid
      /\ initCall' = InitCall(info, credentialssupplied, credentials, sched'.info,
                              credentialssupplied # 0, credentials_pb)
      /\ schedObj' = "live"
      /\ driverObj' = "live"
      /\ UNCHANGED <<driverVars, cbVars, alive, lastCmd, joinVars, crashed, danglingUse>>

scheduler_start ==
  /\ PairLive
  /\ status' = DriverStart.status
  /\ thr' = DriverStart.thr
  /\ lastLife' = Life("start", DriverStart.ret, <<"start">>)
  /\ UNCHANGED <<pairVars, errPending, cbVars, alive, lastCmd, joinState, joinRet,
                 crashed, danglingUse>>

\* Mutant: a stop the bridge lets through on a running driver only.
scheduler_stop_guarded(failover) ==
  /\ PairLive
  /\ status' = IF status = Status.DRIVER_RUNNING THEN DriverStop.status ELSE status
  /\ errPending' = (errPending /\ status # Status.DRIVER_RUNNING)
  /\ lastLife' = IF status = Status.DRIVER_RUNNING
                 THEN Life("stop", DriverStop.ret, <<"stop">>)
                 ELSE Life("stop", DRIVER_ABORTED, <<>>)
  /\ UNCHANGED <<pairVars, thr, cbVars, alive, lastCmd, joinState, joinRet,
                 crashed, danglingUse>>

\* scheduler_stop: driver->stop(true) or driver->stop(false).
scheduler_stop(failover) ==
  /\ PairLive
  /\ status' = DriverStop.status
  /\ errPending' = FALSE
  /\ lastLife' = Life("stop", DriverStop.ret, <<"stop">>)
  /\ UNCHANGED <<pairVars, thr, cbVars, alive, lastCmd, joinState, joinRet,
                 crashed, danglingUse>>

scheduler_abort ==
  /\ PairLive
  /\ status' = DriverAbort.status
  /\ lastLife' = Life("abort", DriverAbort.ret, <<"abort">>)
  /\ UNCHANGED <<pairVars, thr, errPending, cbVars, alive, lastCmd, joinState, joinRet,
                 crashed, danglingUse>>

\* scheduler_join, entered: the caller is inside driver->join().
scheduler_join_call ==
  /\ PairLive
  /\ joinState = "idle"
  /\ joinState' = "blocked"
  /\ UNCHANGED <<pairVars, driverVars, cbVars, alive, lastCmd, joinRet, lastLife,
                 crashed, danglingUse>>

\* Mutant: driver->abort() is called in the place of driver->join().
scheduler_join_return_abort ==
  /\ PairLive
  /\ joinState = "blocked"
  /\ joinState' = "idle"
  /\ status' = DriverAbort.status
  /\ joinRet' = DriverAbort.ret
  /\ lastLife' = Life("join", DriverAbort.ret, <<"abort">>)
  /\ UNCHANGED <<pairVars, thr, errPending, cbVars, alive, lastCmd, crashed, danglingUse>>

\* Mutant: the driver's status is returned without joining.
scheduler_join_return_noWait ==
  /\ PairLive
  /\ joinState = "blocked"
  /\ joinState' = "idle"
  /\ joinRet' = status
  /\ lastLife' = Life("join", status, <<"join">>)
  /\ UNCHANGED <<pairVars, driverVars, cbVars, alive, lastCmd, crashed, danglingUse>>

\* scheduler_join, returning what driver->join() returned.
scheduler_join_return ==
  /\ PairLive
  /\ joinState = "blocked"
  /\ DriverJoinDone
  /\ joinState' = "idle"
  /\ joinRet' = status
  /\ lastLife' = Life("join", status, <<"join">>)
  /\ UNCHANGED <<pairVars, driverVars, cbVars, alive, lastCmd, crashed, danglingUse>>

\* Mutant: delete driver, and the CScheduler is left behind.
scheduler_destroy_driverOnly ==
  /\ PairLive
  /\ joinState = "idle"
  /\ driverObj' = "freed"
  /\ UNCHANGED <<schedObj, sched, initPid, initCall, driverVars, cbVars, alive, lastCmd, joinVars,
                 crashed, danglingUse>>

\* scheduler_destroy: delete driver; delete scheduler.  Nothing in it looks
\* at the driver's state.
scheduler_destroy ==
  /\ PairLive
  /\ joinState = "idle"
  /\ driverObj' = "freed"
  /\ schedObj' = "freed"
  /\ UNCHANGED <<sched, initPid, initCall, driverVars, cbVars, alive, lastCmd, joinVars,
                 crashed, danglingUse>>

\* ------------------------------------------------ the worker threads
\* A thread is inside a callback from the callback's entry to its return.
Idle(t) == \A k \in 1..Len(invs) : ~(invs[k].th = t /\ invs[k].st = "running")

\* A released driver or CScheduler is being used.
Dangling == schedObj = "freed" \/ driverObj = "freed"

\* The driver meets an unrecoverable error: it aborts itself, then calls
\* error.
DriverError ==
  /\ ~crashed
  /\ status = Status.DRIVER_RUNNING
  /\ status' = Status.DRIVER_ABORTED
  /\ errPending' = TRUE
  /\ danglingUse' = (danglingUse \/ Dangling)
  /\ UNCHANGED <<pairVars, thr, cbVars, alive, lastCmd, joinVars, crashed>>

\* A worker thread with nothing left to deliver exits once the driver is
\* stopped or aborted.
ThreadExit(t) ==
  /\ ~crashed
  /\ thr[t] = "live"
  /\ Idle(t)
  /\ \/ status = Status.DRIVER_STOPPED
     \/ status = Status.DRIVER_ABORTED /\ ~errPending
  /\ thr' = [thr EXCEPT ![t] = "exited"]
  /\ danglingUse' = (danglingUse \/ Dangling)
  /\ UNCHANGED <<pairVars, status, errPending, cbVars, alive, lastCmd, joinVars, crashed>>

\* The entry of a callback on thread t, up to and including
\* enif_alloc_env().
Invoke(t, cb, a) ==
  /\ ~crashed
  /\ thr[t] = "live"
  /\ Idle(t)
  /\ Len(invs) < MaxInv
  /\ \/ cb \in RunningEvents /\ status = Status.DRIVER_RUNNING
     \/ cb = "error" /\ status = Status.DRIVER_ABORTED /\ errPending
  /\ a \in CallbackArgs(cb)
  /\ invs' = Append(invs,
       [cb |-> cb, args |-> a, th |-> t, st |-> "running",
        pc |-> IF NumSends(cb, a) = 0 THEN "ret" ELSE "send",
        i |-> 1, env |-> "valid"])
  /\ errPending' = (errPending /\ cb # "error")
  /\ danglingUse' = (danglingUse \/ Dangling)
  /\ UNCHANGED <<pairVars, status, thr, sent, alive, lastCmd, joinVars, crashed>>

\* Mutant: one environment, allocated once, serves every invocation: a tuple
\* is built in an invalidated environment as soon as any callback has sent.
SendOutcomes_sharedEnv(r) ==
  IF BadBuild(r.cb) THEN {"garbage", "crash"}
  ELSE IF \E k \in 1..Len(invs) : invs[k].env = "invalid"
       THEN {"intended", "garbage", "crash"}
  ELSE {"intended"}

\* What building the next tuple and sending it can do.  A tuple built in an
\* environment that a successful enif_send has invalidated, or by the
\* variadic call of disconnected, is undefined: the intended term, a
\* corrupted one, or a crash.
SendOutcomes(r) ==
  IF BadBuild(r.cb) THEN {"garbage", "crash"}
  ELSE IF r.env = "invalid" THEN {"intended", "garbage", "crash"}
  ELSE {"intended"}

\* enif_send(NULL, pid, env, msg): 1 and the message is in the mailbox if the
\* process is alive, 0 otherwise.
enif_send(pid) == alive

\* One pass of "build the tuple; enif_send(NULL, this->pid, env, message)",
\* whose result the callback does not look at.
Send(k, o) ==
  LET r == invs[k]
      msg == IF o = "garbage" THEN Garbage ELSE CallbackMessage(r.cb, r.args, r.i)
      ok == enif_send(sched.pid)
  IN  /\ ~crashed
      /\ r.pc = "send"
      /\ o \in SendOutcomes(r)
      /\ danglingUse' = (danglingUse \/ Dangling)
      /\ IF o = "crash"
         THEN /\ crashed' = TRUE
              /\ UNCHANGED cbVars
         ELSE /\ sent' = Append(sent,
                   [to |-> sched.pid, msg |-> msg, ok |-> ok, th |-> r.th, inv |-> k])
              /\ invs' = [invs EXCEPT ![k] =
                   [r EXCEPT !.env = IF ok THEN "invalid" ELSE r.env,
                             !.i = r.i + 1,
                             !.pc = IF r.i < NumSends(r.cb, r.args) THEN "send" ELSE "ret"]]
              /\ UNCHANGED crashed
      /\ UNCHANGED <<pairVars, driverVars, alive, lastCmd, joinVars>>

\* Mutant: the send is handed off, and the callback returns without waiting
\* for it.
CanReturn_handOff(r) == TRUE

\* A callback returns after its last enif_send.
CanReturn(r) == r.pc = "ret"

\* Mutant: the error callback calls driver->stop() before it returns.
Return_errorStops(k) ==
  LET r == invs[k]
  IN  /\ ~crashed
      /\ r.st = "running"
      /\ CanReturn(r)
      /\ invs' = [invs EXCEPT ![k] =
           [r EXCEPT !.st = "returned",
                     !.env = IF ClearsEnv(r.cb) THEN "cleared" ELSE r.env]]
      /\ status' = IF r.cb = "error" THEN DriverStop.status ELSE status
      /\ danglingUse' = (danglingUse \/ Dangling)
      /\ UNCHANGED <<pairVars, thr, errPending, sent, alive, lastCmd, joinVars, crashed>>

\* The end of a callback: enif_clear_env(env) where the callback has it, and
\* the return to the driver.
Return(k) ==
  LET r == invs[k]
  IN  /\ ~crashed
      /\ r.st = "running"
      /\ CanReturn(r)
      /\ invs' = [invs EXCEPT ![k] =
           [r EXCEPT !.st = "returned",
                     !.env = IF ClearsEnv(r.cb) THEN "cleared" ELSE r.env]]
      /\ danglingUse' = (danglingUse \/ Dangling)
      /\ UNCHANGED <<pairVars, driverVars, sent, alive, lastCmd, joinVars, crashed>>

\* A thread that runs on a released driver or CScheduler may also bring the
\* emulator down.
UseAfterFreeCrash ==
  /\ ~crashed
  /\ Dangling
  /\ \E t \in Threads : thr[t] = "live"
  /\ crashed' = TRUE
  /\ danglingUse' = TRUE
  /\ UNCHANGED <<pairVars, driverVars, cbVars, alive, lastCmd, joinVars>>

\* The controller process exits.
ControllerExit ==
  /\ ~crashed
  /\ alive
  /\ initPid # NoPid
  /\ alive' = FALSE
  /\ UNCHANGED <<pairVars, driverVars, cbVars, lastCmd, joinVars, crashed, danglingUse>>

\* ---------------------------------------------------------- the commands
\* A finished command: the encoded arguments it was given (single entities,
\* sequences, raw data), the status it returned, and the calls it made into
\* the native driver, each with the decoded arguments it passed.
Cmd(op, ents, seqs, data, ret, calls) ==
  [op |-> op, ents |-> ents, seqs |-> seqs, data |-> data,
   ret |-> ret, calls |-> calls]

Call(op, objs, lists, data) ==
  [op |-> op, objs |-> objs, lists |-> lists, data |-> data]

\* Mutant: the result of decoding the operations is not looked at.
scheduler_acceptOffers_opsUnchecked(offerIds, operations, filters) ==
  LET offerIds_ == deserializeSeq("OfferID", offerIds)
      operations_ == deserializeSeq("Operation", operations)
      filter_pb == deserialize("Filters", filters)
      rejected == Cmd("acceptOffers", <<filters>>, <<offerIds, operations>>, <<>>,
                      DRIVER_ABORTED, <<>>)
  IN  IF ~offerIds_.ok THEN rejected
      ELSE IF ~filter_pb.ok THEN rejected
      ELSE Cmd("acceptOffers", <<filters>>, <<offerIds, operations>>, <<>>,
               DriverCommandStatus,
               <<Call("acceptOffers", <<filter_pb.obj>>,
                      <<offerIds_.objs, operations_.objs>>, <<>>)>>)

scheduler_acceptOffers(offerIds, operations, filters) ==
  LET offerIds_ == deserializeSeq("OfferID", offerIds)
      operations_ == deserializeSeq("Operation", operations)
      filter_pb == deserialize("Filters", filters)
      rejected == Cmd("acceptOffers", <<filters>>, <<offerIds, operations>>, <<>>,
                      DRIVER_ABORTED, <<>>)
  IN  IF ~offerIds_.ok THEN rejected
      ELSE IF ~operations_.ok THEN rejected
      ELSE IF ~filter_pb.ok THEN rejected
      ELSE Cmd("acceptOffers", <<filters>>, <<offerIds, operations>>, <<>>,
               DriverCommandStatus,
               <<Call("acceptOffers", <<filter_pb.obj>>,
                      <<offerIds_.objs, operations_.objs>>, <<>>)>>)

scheduler_declineOffer(offerId, filters) ==
  LET offerid_pb == deserialize("OfferID", offerId)
      filter_pb == deserialize("Filters", filters)
      rejected == Cmd("declineOffer", <<offerId, filters>>, <<>>, <<>>,
                      DRIVER_ABORTED, <<>>)
  IN  IF ~offerid_pb.ok THEN rejected
      ELSE IF ~filter_pb.ok THEN rejected
      ELSE Cmd("declineOffer", <<offerId, filters>>, <<>>, <<>>,
               DriverCommandStatus,
               <<Call("declineOffer", <<offerid_pb.obj, filter_pb.obj>>, <<>>, <<>>)>>)

\* Mutant: the driver is called and its status dropped for "running".
scheduler_killTask_statusDropped(taskId) ==
  LET taskid_pb == deserialize("TaskID", taskId)
  IN  IF ~taskid_pb.ok
      THEN Cmd("killTask", <<taskId>>, <<>>, <<>>, DRIVER_ABORTED, <<>>)
      ELSE Cmd("killTask", <<taskId>>, <<>>, <<>>, Status.DRIVER_RUNNING,
               <<Call("killTask", <<taskid_pb.obj>>, <<>>, <<>>)>>)

scheduler_killTask(taskId) ==
  LET taskid_pb == deserialize("TaskID", taskId)
  IN  IF ~taskid_pb.ok
      THEN Cmd("killTask", <<taskId>>, <<>>, <<>>, DRIVER_ABORTED, <<>>)
      ELSE Cmd("killTask", <<taskId>>, <<>>, <<>>, DriverCommandStatus,
               <<Call("killTask", <<taskid_pb.obj>>, <<>>, <<>>)>>)

scheduler_reviveOffers ==
  Cmd("reviveOffers", <<>>, <<>>, <<>>, DriverCommandStatus,
      <<Call("reviveOffers", <<>>, <<>>, <<>>)>>)

\* data is a const char*: the driver's std::string parameter is built from
\* it as from a C string.
scheduler_sendFrameworkMessage(executorId, slaveId, data) ==
  LET executorid_pb == deserialize("ExecutorID", executorId)
      slaveid_pb == deserialize("SlaveID", slaveId)
      rejected == Cmd("sendFrameworkMessage", <<executorId, slaveId>>, <<>>, data,
                      DRIVER_ABORTED, <<>>)
  IN  IF ~executorid_pb.ok THEN rejected
      ELSE IF ~slaveid_pb.ok THEN rejected
      ELSE Cmd("sendFrameworkMessage", <<executorId, slaveId>>, <<>>, data,
               DriverCommandStatus,
               <<Call("sendFrameworkMessage", <<executorid_pb.obj, slaveid_pb.obj>>,
                      <<>>, CStr(data))>>)

scheduler_requestResources(requests) ==
  LET requests_ == deserializeSeq("Request", requests)
  IN  IF ~requests_.ok
      THEN Cmd("requestResources", <<>>, <<requests>>, <<>>, DRIVER_ABORTED, <<>>)
      ELSE Cmd("requestResources", <<>>, <<requests>>, <<>>, DriverCommandStatus,
               <<Call("requestResources", <<>>, <<requests_.objs>>, <<>>)>>)

scheduler_reconcileTasks(taskStatus) ==
  LET taskStatus_ == deserializeSeq("TaskStatus", taskStatus)
  IN  IF ~taskStatus_.ok
      THEN Cmd("reconcileTasks", <<>>, <<taskStatus>>, <<>>, DRIVER_ABORTED, <<>>)
      ELSE Cmd("reconcileTasks", <<>>, <<taskStatus>>, <<>>, DriverCommandStatus,
               <<Call("reconcileTasks", <<>>, <<taskStatus_.objs>>, <<>>)>>)

scheduler_launchTasks(offerId, taskInfos, filters) ==
  LET offerid_pb == deserialize("OfferID", offerId)
      taskInfo_ == deserializeSeq("TaskInfo", taskInfos)
      filter_pb == deserialize("Filters", filters)
      rejected == Cmd("launchTasks", <<offerId, filters>>, <<taskInfos>>, <<>>,
                      DRIVER_ABORTED, <<>>)
  IN  IF ~offerid_pb.ok THEN rejected
      ELSE IF ~taskInfo_.ok THEN rejected
      ELSE IF ~filter_pb.ok THEN rejected
      ELSE Cmd("launchTasks", <<offerId, filters>>, <<taskInfos>>, <<>>,
               DriverCommandStatus,
               <<Call("launchTasks", <<offerid_pb.obj, filter_pb.obj>>,
                      <<taskInfo_.objs>>, <<>>)>>)

\* The controller runs a command to its end: c is what the command did.
Command(c) ==
  /\ PairLive
  /\ lastCmd' = c
  /\ UNCHANGED <<pairVars, driverVars, cbVars, alive, joinVars, crashed, danglingUse>>

\* -------------------------------------- what the controller may pass
GoodBin(T, v) == Bin(SerializeToArray(Obj(T, v)))

\* Bytes that are no well-formed instance of any schema.
BadBin == Bin(<<0>>)

EntityInputs(T) == {GoodBin(T, v) : v \in Vals} \cup {BadBin}

\* filters is the one binary argument the commands do not assert non-null.
FilterInputs == {GoodBin("Filters", 1), BadBin, NullBin}

SeqInputs(T) == UNION {[1..n -> {GoodBin(T, 1), BadBin}] : n \in 0..MaxSeq}

\* ------------------------------------------------------ specifications
Lifecycle(pids, infos) ==
  \/ \E pid \in pids, info \in infos : scheduler_init(pid, info, 0, NullBin)
  \/ scheduler_start
  \/ \E failover \in BOOLEAN : scheduler_stop(failover)
  \/ scheduler_abort
  \/ scheduler_join_call
  \/ scheduler_join_return
  \/ scheduler_destroy

Driver ==
  \/ DriverError
  \/ \E t \in Threads : ThreadExit(t)
  \/ UseAfterFreeCrash

Callbacks(events) ==
  \/ \E t \in Threads, cb \in events : \E a \in CallbackArgs(cb) : Invoke(t, cb, a)
  \/ \E k \in 1..Len(invs) : \E o \in SendOutcomes(invs[k]) : Send(k, o)
  \/ \E k \in 1..Len(invs) : Return(k)

AllEvents == RunningEvents \cup {"error"}

\* The commands with every combination of well-formed and malformed
\* arguments.
Commands ==
  \/ \E o \in SeqInputs("OfferID"), p \in SeqInputs("Operation"), f \in FilterInputs :
       Command(scheduler_acceptOffers(o, p, f))
  \/ \E o \in EntityInputs("OfferID"), f \in FilterInputs :
       Command(scheduler_declineOffer(o, f))
  \/ \E t \in EntityInputs("TaskID") : Command(scheduler_killTask(t))
  \/ Command(scheduler_reviveOffers)
  \/ \E e \in EntityInputs("ExecutorID"), sl \in EntityInputs("SlaveID"), d \in Strings :
       Command(scheduler_sendFrameworkMessage(e, sl, d))
  \/ \E r \in SeqInputs("Request") : Command(scheduler_requestResources(r))
  \/ \E ts \in SeqInputs("TaskStatus") : Command(scheduler_reconcileTasks(ts))
  \/ \E o \in EntityInputs("OfferID"), ti \in SeqInputs("TaskInfo"), f \in FilterInputs :
       Command(scheduler_launchTasks(o, ti, f))

GoodInfo == GoodBin("FrameworkInfo", 1)

\* The dispatcher: a started driver whose worker threads deliver every
\* event, under every interleaving, to a controller that may exit.
Next ==
  \/ scheduler_init("pidA", GoodInfo, 0, NullBin)
  \/ scheduler_start
  \/ DriverError
  \/ ControllerExit
  \/ Callbacks(AllEvents)

Spec == Init /\ [][Next]_vars

\* The facade: every command with every input, in every run state of the
\* driver.
NextCmd ==
  \/ scheduler_init("pidA", GoodInfo, 0, NullBin)
  \/ scheduler_start
  \/ \E failover \in BOOLEAN : scheduler_stop(failover)
  \/ scheduler_abort
  \/ DriverError
  \/ scheduler_destroy
  \/ Commands

SpecCmd == Init /\ [][NextCmd]_vars

\* The lifecycle: every lifecycle operation in every order, with worker
\* threads delivering status updates and the error, a command, and a
\* controller that may exit.
NextLife ==
  \/ Lifecycle(Pids, {GoodInfo})
  \/ Driver
  \/ ControllerExit
  \/ Callbacks({"statusUpdate", "error"})
  \/ \E t \in {GoodBin("TaskID", 1), BadBin} : Command(scheduler_killTask(t))

SpecLife == Init /\ [][NextLife]_vars

\* Concurrency: callbacks of three kinds on two worker threads, under every
\* interleaving with each other and with a command of the controller.
ConcEvents == {"statusUpdate", "resourceOffers", "frameworkMessage"}

NextConc ==
  \/ scheduler_init("pidA", GoodInfo, 0, NullBin)
  \/ scheduler_start
  \/ Callbacks(ConcEvents)
  \/ Command(scheduler_killTask(GoodBin("TaskID", 1)))

SpecConc == Init /\ [][NextConc]_vars

\* Registration: with a valid descriptor and a master that can be reached,
\* the started driver registers and calls registered, once and before any
\* other callback.
HasRegistered == \E k \in 1..Len(invs) : invs[k].cb = "registered"

Register(t) ==
  /\ ~HasRegistered
  /\ \E a \in CallbackArgs("registered") : Invoke(t, "registered", a)

NextReg ==
  \/ \E pid \in Pids : scheduler_init(pid, GoodInfo, 0, NullBin)
  \/ scheduler_start
  \/ \E t \in Threads : Register(t)
  \/ /\ HasRegistered
     /\ \E t \in Threads, cb \in {"statusUpdate", "offerRescinded"} :
          \E a \in CallbackArgs(cb) : Invoke(t, cb, a)
  \/ \E k \in 1..Len(invs) : \E o \in SendOutcomes(invs[k]) : Send(k, o)
  \/ \E k \in 1..Len(invs) : Return(k)
  \/ Command(scheduler_killTask(GoodBin("TaskID", 1)))

\* The driver does register, and a worker thread inside a callback goes on
\* to its send and to its return.
FairReg ==
  /\ WF_vars(\E t \in Threads : Register(t))
  /\ \A k \in 1..MaxInv :
       /\ WF_vars(k <= Len(invs) /\ \E o \in SendOutcomes(invs[k]) : Send(k, o))
       /\ WF_vars(k <= Len(invs) /\ Return(k))

SpecReg == Init /\ [][NextReg]_vars /\ FairReg

\* Construction: scheduler_init with every combination of descriptor and
\* credential bytes, well-formed and not, and the pair it hands back put to
\* use.  info is asserted non-null; credentials is not.
InfoInputs == EntityInputs("FrameworkInfo")

CredentialInputs == {GoodBin("Credential", 1), BadBin, NullBin}

NextInit ==
  \/ \E pid \in Pids, info \in InfoInputs, credentialssupplied \in {0, 1},
        credentials \in CredentialInputs :
          scheduler_init(pid, info, credentialssupplied, credentials)
  \/ scheduler_start
  \/ \E failover \in BOOLEAN : scheduler_stop(failover)
  \/ scheduler_abort
  \/ scheduler_destroy
  \/ Command(scheduler_killTask(GoodBin("TaskID", 1)))

SpecInit == Init /\ [][NextInit]_vars

\* =================================================== the claims, C1..C10
\* The schemas of a command's single-entity arguments and of its sequence
\* arguments, in the order lastCmd keeps them.
EntSchemas(op) ==
  CASE op = "acceptOffers" -> <<"Filters">>
    [] op = "declineOffer" -> <<"OfferID", "Filters">>
    [] op = "killTask" -> <<"TaskID">>
    [] op = "sendFrameworkMessage" -> <<"ExecutorID", "SlaveID">>
    [] op = "launchTasks" -> <<"OfferID", "Filters">>
    [] OTHER -> <<>>

SeqSchemas(op) ==
  CASE op = "acceptOffers" -> <<"OfferID", "Operation">>
    [] op = "requestResources" -> <<"Request">>
    [] op = "reconcileTasks" -> <<"TaskStatus">>
    [] op = "launchTasks" -> <<"TaskInfo">>
    [] OTHER -> <<>>

ArgCommands ==
  {"acceptOffers", "declineOffer", "killTask", "sendFrameworkMessage",
   "requestResources", "reconcileTasks", "launchTasks"}

\* The bytes are the encoding of some object of schema T.
WellFormed(T, bin) ==
  /\ ~bin.null
  /\ \E v \in Vals : bin.bytes = SerializeToArray(Obj(T, v))

\* At least one argument of command c, or one element of one of its
\* sequences, is no encoding of its schema.
SomeArgMalformed(c) ==
  \/ \E i \in 1..Len(c.ents) : ~WellFormed(EntSchemas(c.op)[i], c.ents[i])
  \/ \E j \in 1..Len(c.seqs) : \E n \in 1..Len(c.seqs[j]) :
       ~WellFormed(SeqSchemas(c.op)[j], c.seqs[j][n])

\* A step in which a command ran.
CommandRan == lastCmd' # lastCmd

\* C1: a command given at least one argument (or sequence element, at any
\* position) that does not decode returns the rejection status, makes no
\* call at all into the native driver, leaves the driver as it was and
\* produces no outbound message.
C1_MalformedRejectedNoDriverCall ==
  [][(CommandRan /\ SomeArgMalformed(lastCmd'))
       => /\ lastCmd'.op \in ArgCommands
          /\ lastCmd'.ret = DRIVER_ABORTED
          /\ lastCmd'.calls = <<>>
          /\ status' = status
          /\ sent' = sent]_vars

\* C1 witness: launchTasks with a well-formed offer id and filters, whose
\* second task info alone is malformed, has been rejected.
C1_Witness ==
  /\ lastCmd.op = "launchTasks"
  /\ \A i \in 1..2 : WellFormed(EntSchemas("launchTasks")[i], lastCmd.ents[i])
  /\ Len(lastCmd.seqs[1]) = 2
  /\ WellFormed("TaskInfo", lastCmd.seqs[1][1])
  /\ ~WellFormed("TaskInfo", lastCmd.seqs[1][2])
  /\ lastCmd.ret = DRIVER_ABORTED
  /\ lastCmd.calls = <<>>

\* C2: a command all of whose arguments decode (reviveOffers always) makes
\* exactly one call, to the driver operation of its own name, passing for
\* every encoded argument the object that the bytes encode, and returns the
\* status the driver reported for that call, whatever the run state.
C2_ForwardedOnceStatusUnchanged ==
  [][(CommandRan /\ ~SomeArgMalformed(lastCmd'))
       => LET c == lastCmd'
          IN  /\ Len(c.calls) = 1
              /\ c.calls[1].op = c.op
              /\ Len(c.calls[1].objs) = Len(c.ents)
              /\ \A i \in 1..Len(c.ents) :
                   /\ c.calls[1].objs[i].type = EntSchemas(c.op)[i]
                   /\ SerializeToArray(c.calls[1].objs[i]) = c.ents[i].bytes
              /\ Len(c.calls[1].lists) = Len(c.seqs)
              /\ \A j \in 1..Len(c.seqs) :
                   /\ Len(c.calls[1].lists[j]) = Len(c.seqs[j])
                   /\ \A n \in 1..Len(c.seqs[j]) :
                        /\ c.calls[1].lists[j][n].type = SeqSchemas(c.op)[j]
                        /\ SerializeToArray(c.calls[1].lists[j][n]) = c.seqs[j][n].bytes
              /\ c.ret = status
              /\ status' = status]_vars

\* C2 witness: launchTasks with two task infos was forwarded on a stopped
\* driver and returned the stopped status.
C2_Witness ==
  /\ lastCmd.op = "launchTasks"
  /\ Len(lastCmd.seqs[1]) = 2
  /\ Len(lastCmd.calls) = 1
  /\ lastCmd.ret = Status.DRIVER_STOPPED
  /\ status = Status.DRIVER_STOPPED

\* C3 as stated: the status of a rejected command is none of the statuses
\* the native driver reports.
C3_RejectionDistinctFromNative ==
  SomeArgMalformed(lastCmd) => lastCmd.ret \notin NativeStatuses

\* C3 amended: the status of a rejected command is the native aborted value;
\* it differs from not-started, running and stopped only.
C3_RejectionIsNativeAborted ==
  SomeArgMalformed(lastCmd)
    => /\ lastCmd.ret = Status.DRIVER_ABORTED
       /\ lastCmd.ret \notin
            {Status.DRIVER_NOT_STARTED, Status.DRIVER_RUNNING, Status.DRIVER_STOPPED}

\* C3 witness: a command was rejected with the aborted value while the
\* native driver is running.
C3_Witness ==
  /\ SomeArgMalformed(lastCmd)
  /\ lastCmd.ret = Status.DRIVER_ABORTED
  /\ status = Status.DRIVER_RUNNING

\* The enif_send calls of invocation k, in the order they were made.
SendsOf(k) == SelectSeq(sent, LAMBDA e : e.inv = k)

Returned(k) == invs[k].st = "returned"

\* The binary term that carries the encoding of obj.
EncodingOf(obj) == [k |-> "binary", v |-> <<TypeTag[obj.type], obj.val>>]

\* C4 as stated: a resourceOffers callback that has returned sent exactly one
\* message per offer, each tagged resourceOffers and carrying one offer, the
\* i-th message the i-th offer.
C4_OneMessagePerOfferInOrder ==
  \A k \in 1..Len(invs) :
    (Returned(k) /\ invs[k].cb = "resourceOffers")
      => LET offers == invs[k].args.list
             s == SendsOf(k)
         IN  /\ Len(s) = Len(offers)
             /\ \A i \in 1..Len(s) :
                  /\ s[i].to = initPid
                  /\ s[i].msg = Tuple("resourceOffers", <<EncodingOf(offers[i])>>)

\* The payload of each event of the table: "obj" an encoded entity argument,
\* "raw" a byte string, "int" an integer.
PayloadShape(cb) ==
  CASE cb = "registered" -> <<"obj", "obj">>
    [] cb = "reregistered" -> <<"obj">>
    [] cb = "offerRescinded" -> <<"obj">>
    [] cb = "statusUpdate" -> <<"obj">>
    [] cb = "frameworkMessage" -> <<"obj", "obj", "raw">>
    [] cb = "slaveLost" -> <<"obj">>
    [] cb = "executorLost" -> <<"obj", "obj", "int">>
    [] cb = "error" -> <<"raw">>

\* The schemas of the entity arguments of each event, in the table's order.
PayloadSchemas(cb) ==
  CASE cb = "registered" -> <<"FrameworkID", "MasterInfo">>
    [] cb = "reregistered" -> <<"MasterInfo">>
    [] cb = "offerRescinded" -> <<"OfferID">>
    [] cb = "statusUpdate" -> <<"TaskStatus">>
    [] cb = "frameworkMessage" -> <<"ExecutorID", "SlaveID">>
    [] cb = "slaveLost" -> <<"SlaveID">>
    [] cb = "executorLost" -> <<"ExecutorID", "SlaveID">>
    [] cb = "error" -> <<>>

SingleMessageEvents ==
  {"registered", "reregistered", "offerRescinded", "statusUpdate",
   "frameworkMessage", "slaveLost", "executorLost", "error"}

\* Message m has the tag and the payload of the table for event cb called
\* with arguments a.
MatchesTable(m, cb, a) ==
  /\ m.tag = cb
  /\ Len(m.elems) = Len(PayloadShape(cb))
  /\ \A j \in 1..Len(m.elems) :
       CASE PayloadShape(cb)[j] = "obj" ->
              /\ a.objs[j].type = PayloadSchemas(cb)[j]
              /\ m.elems[j] = EncodingOf(a.objs[j])
         [] PayloadShape(cb)[j] = "raw" -> m.elems[j].k = "string"
         [] PayloadShape(cb)[j] = "int" -> m.elems[j] = [k |-> "int", v |-> <<a.int>>]

\* C5: every callback of the eight single-message events that has returned
\* made exactly one enif_send, to the bound controller, of a message with
\* the event's tag and the table's payload built from its own arguments.
\* (It returned on its own: no step of the controller stands between the
\* send and the return.)
C5_OneMessagePerEvent ==
  \A k \in 1..Len(invs) :
    (Returned(k) /\ invs[k].cb \in SingleMessageEvents)
      => LET s == SendsOf(k)
         IN  /\ Len(s) = 1
             /\ s[1].to = initPid
             /\ MatchesTable(s[1].msg, invs[k].cb, invs[k].args)

\* C5 witness: an executorLost and a registered callback have both returned,
\* their messages delivered.
C5_Witness ==
  /\ Len(invs) = 2
  /\ {invs[1].cb, invs[2].cb} = {"executorLost", "registered"}
  /\ Returned(1) /\ Returned(2)
  /\ Len(sent) = 2
  /\ sent[1].ok /\ sent[2].ok

\* C6 as stated: a statusUpdate callback that has returned (the
\* acknowledgment) has had its message sent, and the send succeeded.
C6_AckedOnlyIfSent ==
  \A k \in 1..Len(invs) :
    (Returned(k) /\ invs[k].cb = "statusUpdate")
      => \E i \in 1..Len(sent) :
           /\ sent[i].inv = k
           /\ sent[i].ok
           /\ sent[i].msg = Tuple("statusUpdate", <<EncodingOf(invs[k].args.objs[1])>>)

CrossThreadReorder ==
  /\ Len(sent) = 2
  /\ sent[1].inv = 2 /\ sent[2].inv = 1
  /\ sent[1].th # sent[2].th

\* C8: once scheduler_init has bound the controller identity, the
\* CScheduler's pid is that identity in every later state, whatever
\* lifecycle operation, command or callback has run, and every enif_send of
\* every callback and thread was addressed to it.
C8_IdentityBoundOnce ==
  initPid # NoPid
    => /\ sched.pid = initPid
       /\ \A i \in 1..Len(sent) : sent[i].to = initPid

\* C8 witness: bound to pidB, callbacks on two threads have sent, a command
\* has run, and the pair went through stop, join and destroy.
C8_Witness ==
  /\ initPid = "pidB"
  /\ Len(sent) = 2
  /\ sent[1].th # sent[2].th
  /\ lastCmd.op = "killTask"
  /\ joinRet = Status.DRIVER_STOPPED
  /\ driverObj = "freed"

\* The pair was destroyed as the contract asks: on a driver never started, or
\* after a join that returned a terminal status.
DestroyedInOrder ==
  /\ driverObj = "freed"
  /\ \/ status = Status.DRIVER_NOT_STARTED
     \/ joinRet \in TerminalStatuses

\* C9: after a destroy made in order, nothing of the driver runs any more:
\* no callback is in progress, no worker thread is left, and no thread has
\* used the released driver or callback instance.
C9_NoUseAfterOrderlyDestroy ==
  DestroyedInOrder
    => /\ ~danglingUse
       /\ \A k \in 1..Len(invs) : Returned(k)
       /\ \A t \in Threads : thr[t] # "live"

\* C9 witness: a driver that delivered a message was stopped, joined and
\* destroyed.
C9_Witness ==
  /\ DestroyedInOrder
  /\ joinRet = Status.DRIVER_STOPPED
  /\ Len(sent) > 0
  /\ ~danglingUse

\* C10: scheduler_join returns only when no worker thread is left, and once
\* it has returned a terminal status no callback is in progress and no step
\* starts a callback or sends a message.
C10_JoinWaitsForThreads ==
  [][/\ (joinState = "blocked" /\ joinState' = "idle")
          => \A t \in Threads : thr'[t] # "live"
     /\ joinRet \in TerminalStatuses
          => /\ \A k \in 1..Len(invs) : Returned(k)
             /\ invs' = invs
             /\ sent' = sent]_vars

\* C10 witness: stop, then join returned the stopped status, after a message
\* had been sent.
C10_Witness ==
  /\ joinRet = Status.DRIVER_STOPPED
  /\ joinState = "idle"
  /\ Len(sent) > 0
  /\ driverObj = "live"

\* ================================================== the claims, C11..C20
\* A step in which start, stop, abort or join ran to its end.
LifeRan == lastLife' # lastLife

\* What the native driver reports for the lifecycle operation op called in
\* the present state.
DriverReports(op) ==
  CASE op = "start" -> DriverStart.ret
    [] op = "stop" -> DriverStop.ret
    [] op = "abort" -> DriverAbort.ret
    [] op = "join" -> status

\* C11: start, stop, abort and join, in whatever run state and however often
\* repeated, make exactly one call, to the driver operation of their own
\* name, return the status the driver reports for it, and leave the pair as
\* it was: driver reference, callback instance, bound identity, descriptor.
C11_LifecycleForwardedUnguarded ==
  [][LifeRan
       => /\ lastLife'.calls = <<lastLife'.op>>
          /\ lastLife'.ret = DriverReports(lastLife'.op)
          /\ pairVars' = pairVars]_vars

\* C11 witness: abort called after stop returned the stopped status, on a
\* pair that is still whole.
C11_Witness ==
  /\ lastLife.op = "abort"
  /\ lastLife.ret = Status.DRIVER_STOPPED
  /\ lastLife.calls = <<"abort">>
  /\ PairLive
  /\ sched.pid = initPid

\* C12: between any two operations, and whenever a callback runs, the driver
\* and the CScheduler are both there or both not (never built, or both
\* released); a CScheduler that is there holds the identity and the
\* descriptor given to scheduler_init, and the driver has invoked nothing on
\* a CScheduler without identity.
C12_PairWholeOrAbsent ==
  /\ <<driverObj, schedObj>> \in
       {<<"null", "null">>, <<"live", "live">>, <<"freed", "freed">>}
  /\ schedObj = "live"
       => /\ sched.pid = initPid
          /\ sched.pid \in Pids
          /\ sched.info = ParseFromArray("FrameworkInfo", GoodInfo.bytes).obj
  /\ schedObj = "null" => (status = Status.DRIVER_NOT_STARTED /\ invs = <<>>)
  /\ \A i \in 1..Len(sent) : sent[i].to \in Pids

\* C12 witness: a callback is running on a whole pair bound to pidB.
C12_Witness ==
  /\ PairLive
  /\ sched.pid = "pidB"
  /\ \E k \in 1..Len(invs) : invs[k].st = "running"

\* C13 as stated: whenever sendFrameworkMessage forwards to the driver, the
\* data the driver is handed is the data the caller supplied, byte for byte,
\* zero bytes included.
C13_DataPassedThrough ==
  (lastCmd.op = "sendFrameworkMessage" /\ lastCmd.calls # <<>>)
    => lastCmd.calls[1].data = lastCmd.data

\* C13: data without a zero byte did reach the driver whole.
C13_WholeWithoutZero ==
  /\ lastCmd.op = "sendFrameworkMessage"
  /\ lastCmd.calls # <<>>
  /\ lastCmd.data = CStr(lastCmd.data)
  /\ lastCmd.calls[1].data = lastCmd.data

\* The raw string element of the message of a frameworkMessage or error
\* callback: the last element of the tuple.
RawElement(m) == m.elems[Len(m.elems)]

\* C14 as stated: the raw string element of every frameworkMessage and error
\* message is the whole string the driver passed to the callback.
C14_RawStringWhole ==
  \A i \in 1..Len(sent) :
    invs[sent[i].inv].cb \in {"frameworkMessage", "error"}
      => RawElement(sent[i].msg).v = invs[sent[i].inv].args.str

\* C14: a frameworkMessage whose string holds no zero byte was sent whole.
C14_WholeWithoutZero ==
  \E i \in 1..Len(sent) :
    /\ invs[sent[i].inv].cb = "frameworkMessage"
    /\ invs[sent[i].inv].args.str = CStr(invs[sent[i].inv].args.str)
    /\ RawElement(sent[i].msg).v = invs[sent[i].inv].args.str

\* C15 as stated: every disconnected callback that has returned made one
\* enif_send, to the bound controller, of the well-formed message whose tag
\* is disconnected and which has no payload element.
C15_DisconnectedWellFormed ==
  \A k \in 1..Len(invs) :
    (Returned(k) /\ invs[k].cb = "disconnected")
      => LET s == SendsOf(k)
         IN  /\ Len(s) = 1
             /\ s[1].to = initPid
             /\ s[1].msg = Tuple("disconnected", <<>>)

\* C15: the disconnected callback did make its one enif_send, to the bound
\* controller.
C15_OneSendMade ==
  \E k \in 1..Len(invs) :
    /\ Returned(k)
    /\ invs[k].cb = "disconnected"
    /\ Len(SendsOf(k)) = 1
    /\ SendsOf(k)[1].to = initPid

\* The messages the j-th enif_send of a callback cb(a) can carry when the
\* callback runs with no other beside it, s being its sends: the tuple of
\* its own arguments, or what its own use of its own environment makes of
\* it (C15, C20).
AloneMessages(cb, a, s, j) ==
  IF BadBuild(cb) THEN {Garbage}
  ELSE IF j > 1 /\ s[j - 1].ok THEN {CallbackMessage(cb, a, j), Garbage}
  ELSE {CallbackMessage(cb, a, j)}

\* C16: under every interleaving of the worker threads with each other and
\* with commands, a callback that has returned has made the enif_send calls
\* it makes when run alone: as many (none lost, none twice), on its own
\* thread, each carrying what it builds from its own arguments in its own
\* environment, whatever the other invocations have done to theirs.
C16_InvocationsIsolated ==
  \A k \in 1..Len(invs) :
    Returned(k)
      => LET s == SendsOf(k)
         IN  /\ Len(s) = NumSends(invs[k].cb, invs[k].args)
             /\ \A j \in 1..Len(s) :
                  /\ s[j].th = invs[k].th
                  /\ s[j].msg \in AloneMessages(invs[k].cb, invs[k].args, s, j)

\* C16 witness: a statusUpdate was invoked on one thread while a
\* frameworkMessage on the other had sent and not yet returned; both
\* returned, each message intact, and a command ran meanwhile.
C16_Witness ==
  /\ Len(invs) = 2
  /\ invs[1].cb = "frameworkMessage" /\ invs[2].cb = "statusUpdate"
  /\ invs[1].th # invs[2].th
  /\ Returned(1) /\ Returned(2)
  /\ Len(sent) = 2
  /\ sent[1].inv = 2 /\ sent[2].inv = 1
  /\ sent[1].msg = statusUpdate(invs[2].args)
  /\ sent[2].msg = frameworkMessage(invs[1].args)
  /\ lastCmd.op = "killTask"

\* A step of a callback: its entry, one of its sends, or its return.
CallbackStep == invs' # invs \/ sent' # sent

\* C17: no step of any callback changes the driver's run state, its threads,
\* or what the last lifecycle call or command of the controller did on the
\* driver; and when an error message is sent the driver's abort lies behind:
\* the driver is aborted (or the controller has stopped it since), never
\* still running.
C17_CallbacksLeaveDriverAlone ==
  [][CallbackStep
       => /\ status' = status
          /\ thr' = thr
          /\ lastLife' = lastLife
          /\ lastCmd' = lastCmd
          /\ (sent' # sent /\ invs[sent'[Len(sent')].inv].cb = "error")
               => status \in TerminalStatuses]_vars

\* C17 witness: the error message was sent and the callback returned with
\* the driver aborted, and no abort was ever called by the controller.
C17_Witness ==
  /\ \E i \in 1..Len(sent) :
       /\ sent[i].msg.tag = "error"
       /\ Returned(sent[i].inv)
  /\ status = Status.DRIVER_ABORTED
  /\ lastLife.op = "start"

\* The registered messages sent so far.
RegisteredSends == {i \in 1..Len(sent) : sent[i].msg.tag = "registered"}

\* The controller has received the registered message of the registration:
\* it carries the encodings of the FrameworkID and of the MasterInfo the
\* driver passed, and it went to the identity given to scheduler_init.
RegisteredReceived ==
  \E k \in 1..Len(invs), i \in RegisteredSends :
    /\ invs[k].cb = "registered"
    /\ sent[i].inv = k
    /\ sent[i].ok
    /\ sent[i].to = initPid
    /\ sent[i].msg =
         Tuple("registered",
               <<EncodingOf(invs[k].args.objs[1]), EncodingOf(invs[k].args.objs[2])>>)
    /\ invs[k].args.objs[1].type = "FrameworkID"
    /\ invs[k].args.objs[2].type = "MasterInfo"

\* C18: nothing is sent before start; once the driver has been started the
\* controller does, in the end, receive the registered message with the
\* FrameworkID and the MasterInfo; and never is there a second one for the
\* one registration.
C18_RegisteredOnceAfterStart ==
  /\ [](status = Status.DRIVER_NOT_STARTED => sent = <<>>)
  /\ [](Cardinality(RegisteredSends) <= 1)
  /\ (status = Status.DRIVER_RUNNING) ~> RegisteredReceived

\* C18 witness: init by pidB, start, and the registered message has arrived,
\* the one message so far, the callback returned.
C18_Witness ==
  /\ initPid = "pidB"
  /\ lastLife.op = "start"
  /\ RegisteredReceived
  /\ Len(sent) = 1
  /\ \A k \in 1..Len(invs) : Returned(k)

\* An environment obtained from enif_alloc_env stays allocated until
\* enif_free_env is called on it; enif_clear_env empties it and keeps it.
Allocated(r) == r.env \in {"valid", "invalid", "cleared"}

\* C19 as stated: a callback that has returned has cleared and released its
\* environment, so there are never more environments allocated than
\* callbacks in progress.
C19_EnvReleasedOnReturn ==
  /\ \A k \in 1..Len(invs) : Returned(k) => ~Allocated(invs[k])
  /\ Cardinality({k \in 1..Len(invs) : Allocated(invs[k])})
       <= Cardinality({k \in 1..Len(invs) : invs[k].st = "running"})

\* C19: a statusUpdate callback did clear its environment before it
\* returned.
C19_ClearedOnReturn ==
  \E k \in 1..Len(invs) :
    /\ invs[k].cb = "statusUpdate"
    /\ Returned(k)
    /\ invs[k].env = "cleared"

\* C20 as stated: a callback about to build and send a message holds an
\* environment that is valid: no environment handed to a successful
\* enif_send is used for another message before it has been cleared.
C20_EnvValidAtEverySend ==
  \A k \in 1..Len(invs) :
    (invs[k].st = "running" /\ invs[k].pc = "send") => invs[k].env = "valid"

\* C20: resourceOffers with a single offer sent its message from the valid
\* environment and returned.
C20_SingleOfferValid ==
  \E k \in 1..Len(invs) :
    /\ invs[k].cb = "resourceOffers"
    /\ Len(invs[k].args.list) = 1
    /\ Returned(k)
    /\ Len(SendsOf(k)) = 1
    /\ SendsOf(k)[1].msg = resourceOffers(invs[k].args, 1)

\* =========================================================== the claim C21
\* What decoding bytes as schema T leaves in a fresh object: the object the
\* bytes encode, or, the decode having failed, the object as it stands.
LeftByDecode(T, bin, obj) ==
  IF WellFormed(T, bin)
  THEN obj.type = T /\ SerializeToArray(obj) = bin.bytes
  ELSE obj = Default(T)

\* C21: whatever the descriptor bytes and the credential bytes, scheduler_init
\* hands back a pair with both the driver and the CScheduler present; the
\* driver was constructed, with the credential exactly if one was supplied,
\* from what the decodes left, failed or not, and the CScheduler keeps that
\* descriptor.
C21_InitNeverRejects ==
  initCall.called
    => /\ driverObj # "null"
       /\ schedObj # "null"
       /\ initPid \in Pids
       /\ initCall.drvInfo = sched.info
       /\ LeftByDecode("FrameworkInfo", initCall.info, sched.info)
       /\ initCall.withCred = (initCall.supplied # 0)
       /\ initCall.withCred
            => LeftByDecode("Credential", initCall.cred, initCall.drvCred)

\* C21 witness: neither the descriptor nor the supplied credential decoded,
\* and the pair that came back was started as any other.
C21_Witness ==
  /\ initCall.called
  /\ ~WellFormed("FrameworkInfo", initCall.info)
  /\ initCall.supplied = 1
  /\ ~WellFormed("Credential", initCall.cred)
  /\ PairLive
  /\ initCall.withCred
  /\ lastLife = Life("start", Status.DRIVER_RUNNING, <<"start">>)

====
